---- MODULE Spec2Model ----
(***************************************************************************)
(* Order backend (routers.py, utils.py): create_order, verify_payment,    *)
(* update_order and price_preview running against the external store and   *)
(* the payment gateway, and the pricing function they share.               *)
(*                                                                         *)
(* Money is counted in paise (1/100 rupee), so round(x, 2) of the source   *)
(* is rounding to an integer.  Every store or gateway call of a handler is *)
(* one atomic step; two requests may be in flight at once and interleave   *)
(* between their calls.                                                    *)
(***************************************************************************)
EXTENDS Integers, Sequences, FiniteSets, TLC

\* ------------------------------------------------------------------ bounds
MaxWork == 5       \* requests of one behaviour, one after another: a create_order
                   \* counts 2, any other request 1
MaxWorkConc == 4   \* the same, when two requests may be in flight at once
MaxWorkOrders == 4 \* the same, when update_order requests are among them
MaxWorkPricing == 1 \* price-preview requests of one behaviour
MaxOrderId == 2    \* largest order_id a client asks about
MaxQty == 2        \* largest quantity a client puts on a cart line
InitStock == 1     \* stock_quantity of every variant at the start
MaxCartLen == 2    \* longest cart
NumLucky == 3      \* size of the lucky-number space (10^7 in the source)
MaxCount == 3      \* largest count passed to generate_unique_lucky_numbers
MaxWorkDraw == 1   \* calls of generate_unique_lucky_numbers in a behaviour
MaxWorkQty == 2    \* work of the behaviours with unconstrained quantities

\* ------------------------------------------------------------------ data
Slots == {1, 2}
Users == {"u1", "u2"}
PaymentMethods == {"Online", "COD"}
PaymentIds == {"pay1", "pay2"}
GatewayIds == {1, 2}
NoPrice == -1
Forged == <<"forged">>

\* product_variants rows (variant_id -> product_id); any other id is unknown
VariantTable == [v \in 1..4 |-> [product_id |-> v]]
\* products rows; product 3 has price NULL, product 4 has no row
ProductTable ==
    (1 :> [price |-> 100000, brand_id |-> "b1"]) @@
    (2 :> [price |-> 48000, brand_id |-> "b2"]) @@
    (3 :> [price |-> NoPrice, brand_id |-> "b1"])
\* offers joined with offer_scope, all active and brand-scoped; discount_value
\* is counted in hundredths (of a percent, or of a rupee)
TenPercent ==
    [scope_id |-> "b1", discount_type |-> "percentage", discount_value |-> 1000,
     min_quantity |-> 2, is_active |-> TRUE]
OfferTable == <<TenPercent>>

VariantIds == 1..5
LuckySpace == 1..NumLucky

VARIABLES
    profiles,        \* profiles table: id -> row (its four required fields)
    stock,           \* product_variants.stock_quantity
    orders,          \* orders table: order_id -> row
    orderItems,      \* order_items table: order_id -> sequence of rows
    luckyRows,       \* lucky_numbers table: set of [order_id, lucky_number]
    nextOrderId,     \* the store's serial for orders.order_id
    gwNext,          \* the gateway's counter of created gateway orders
    cascade,         \* whether the store schema cascades a header delete to child rows
    brandKeyed,      \* whether a validated item carries brand_id
    req,             \* the request in flight in each slot
    last,            \* the request that returned in the step just taken, if one did
    work,            \* requests started so far (a create_order counts 2)
    limits,          \* slots that take requests, the bound on work, the inputs drawn
    offers,          \* offers table
    passed           \* history: the verify_payment requests that reached the
                     \* signature check with a signature the gateway made

vars == <<profiles, stock, orders, orderItems, luckyRows, nextOrderId, gwNext,
          cascade, brandKeyed, req, last, work, limits, passed, offers>>
storeVars == <<profiles, stock, orders, orderItems, luckyRows, nextOrderId, gwNext>>
schemaVars == <<cascade, brandKeyed, limits, offers>>
createVars == <<cascade, brandKeyed, limits, offers, passed>>

NoVerify == [order_id |-> 0, razorpay_order_id |-> 0, razorpay_payment_id |-> "",
             razorpay_signature |-> Forged]

\* a request in flight: the handler's arguments and locals and its position;
\* cart holds the lines read so far, each with the stock_quantity read for it
Idle ==
    [op |-> "none", pc |-> "idle", user |-> "u1", n |-> 0, cart |-> <<>>, pm |-> "COD",
     validated |-> <<>>, total_amount |-> 0, grand_total |-> 0, lucky |-> <<>>,
     k |-> 0, oid |-> 0, rzp |-> 0, data |-> NoVerify, opt |-> FALSE,
     existing |-> {}]

NoPricing == [raised |-> "none"]

\* a returned request: its arguments, the response (status, detail), the
\* position it left from (at), whether a store or gateway call of it failed
\* (faulted), the order id the store gave it (oid, 0 if none), and the number
\* of stock rows it wrote (deducted); for a call of
\* generate_unique_lucky_numbers, its argument (count) and the list returned
\* (lucky)
NoResponse ==
    [op |-> "none", user |-> "u1", pm |-> "COD", cart |-> <<>>, data |-> NoVerify,
     status |-> 0,
     detail |-> "", at |-> "", faulted |-> FALSE, oid |-> 0, deducted |-> 0,
     opt |-> FALSE, pricing |-> NoPricing, items |-> <<>>,
     count |-> 0, lucky |-> <<>>]

\* ------------------------------------------------------------------ helpers
RECURSIVE SumSeq(_)
SumSeq(s) == IF s = <<>> THEN 0 ELSE Head(s) + SumSeq(Tail(s))

RECURSIVE SumSet(_, _)
SumSet(f, S) ==
    IF S = {} THEN 0
    ELSE LET x == CHOOSE y \in S : TRUE IN f[x] + SumSet(f, S \ {x})

\* round(n / d) to the nearest integer, ties to even (Python's round)
RoundDiv(n, d) ==
    LET q == n \div d
        r == n % d
    IN  IF 2 * r < d THEN q
        ELSE IF 2 * r > d THEN q + 1
        ELSE IF q % 2 = 0 THEN q ELSE q + 1

Max(a, b) == IF a >= b THEN a ELSE b


Remove(f, x) == [y \in DOMAIN f \ {x} |-> f[y]]

\* every injective sequence of n elements of S
RECURSIVE Arrangements(_, _)
Arrangements(S, n) ==
    IF n <= 0 THEN {<<>>}
    ELSE UNION {{<<x>> \o t : t \in Arrangements(S \ {x}, n - 1)} : x \in S}

\* ------------------------------------------------------------------ pricing
\* the rows the offers query of calculate_order_pricing returns for a brand
EligibleOffers(brand_id, quantity) ==
    SelectSeq(offers,
              LAMBDA o : /\ o.scope_id = brand_id /\ o.is_active
                         /\ o.min_quantity <= quantity)

\* variant: the first row the query returned
FirstOffer(offs) == offs[1]

\* max(offer_res.data, key=discount_value): the first row of maximal value
BestOffer(offs) ==
    LET i == CHOOSE j \in 1..Len(offs) :
                 /\ \A m \in 1..Len(offs) : offs[m].discount_value <= offs[j].discount_value
                 /\ \A m \in 1..(j - 1) : offs[m].discount_value < offs[j].discount_value
    IN  offs[i]

\* variant: every offer scaled by the subtotal
ScaledDiscount(offer, subtotal) == RoundDiv(subtotal * offer.discount_value, 10000)

\* the discount of the offer picked, by its discount_type
OfferDiscount(offer, subtotal) ==
    IF offer.discount_type = "percentage"
    THEN RoundDiv(subtotal * offer.discount_value, 10000)
    ELSE offer.discount_value

BrandsOf(items) == {items[i].brand_id : i \in 1..Len(items)}

BrandSubtotal(items, b) ==
    SumSeq([i \in 1..Len(items) |->
               IF items[i].brand_id = b THEN items[i].subtotal ELSE 0])

BrandQuantity(items, b) ==
    SumSeq([i \in 1..Len(items) |->
               IF items[i].brand_id = b THEN items[i].quantity ELSE 0])

BrandDiscount(items, b) ==
    LET offs == EligibleOffers(b, BrandQuantity(items, b))
    IN  IF offs = <<>> THEN 0 ELSE OfferDiscount(BestOffer(offs), BrandSubtotal(items, b))

\* brand_map[brand_id]["offer"]: None, or the offer picked
NoOffer ==
    [scope_id |-> "", discount_type |-> "none", discount_value |-> 0, min_quantity |-> 0,
     is_active |-> FALSE]

BrandOffer(items, b) ==
    LET offs == EligibleOffers(b, BrandQuantity(items, b))
    IN  IF offs = <<>> THEN NoOffer ELSE BestOffer(offs)

\* variant: a rate of 10%
GstTenPercent(discounted) == RoundDiv(discounted * 10, 100)

\* gst_amount = round(discounted * 0.05, 2)
GstAmount(discounted) == RoundDiv(discounted * 5, 100)

\* variant: 499.00 itself pays shipping
ShippingFeeInclusive(final) == IF final <= 49900 THEN 4900 ELSE 0

\* shipping = 49.0 if final < 499 else 0.0
ShippingFee(final) == IF final < 49900 THEN 4900 ELSE 0

\* variant: 2% with no floor
CodFeeNoFloor(pm, grand) == IF pm = "COD" THEN RoundDiv(grand * 2, 100) ELSE 0

\* cod_fee = max(40.0, round(grand * 0.02, 2)) for COD, else 0.0
CodFee(pm, grand) == IF pm = "COD" THEN Max(4000, RoundDiv(grand * 2, 100)) ELSE 0

\* calculate_order_pricing(order, validated_items); item["brand_id"] raises
\* KeyError on an item that has no such key
calculate_order_pricing(pm, items) ==
    IF \E i \in 1..Len(items) : "brand_id" \notin DOMAIN items[i]
    THEN [raised |-> "KeyError"]
    ELSE LET brands == BrandsOf(items)
             total_discount == SumSet([b \in brands |-> BrandDiscount(items, b)], brands)
             subtotal == SumSeq([i \in 1..Len(items) |-> items[i].subtotal])
             discounted == subtotal - total_discount
             gst_amount == GstAmount(discounted)
             final == discounted + gst_amount
             shipping == ShippingFee(final)
             grand == final + shipping
             cod_fee == CodFee(pm, grand)
         IN  [raised |-> "", subtotal |-> subtotal, discount |-> total_discount,
              gst |-> gst_amount, shipping_fee |-> shipping, cod_fee |-> cod_fee,
              total |-> grand + cod_fee,
              brand_breakdown |->
                  [b \in brands |-> [subtotal |-> BrandSubtotal(items, b),
                                     quantity |-> BrandQuantity(items, b),
                                     discount |-> BrandDiscount(items, b),
                                     offer |-> BrandOffer(items, b)]]]

\* ------------------------------------------------------------------ create_order
\* the fields create_order requires of a profile, and the values it takes
\* for missing: None, "" and " "
RequiredFields == {"full_name", "address_line1", "city", "postal_code"}
None == "null"
Blank == {None, "", " "}

\* the row create_order inserts for a user that has none
EmptyProfile == [f \in RequiredFields |-> None]

\* the row create_order goes on with: the one stored, or the empty one
LoadedProfile(u) == IF u \in DOMAIN profiles THEN profiles[u] ELSE EmptyProfile

\* variant: no field required
AnyProfile(p) == TRUE

\* not any(f in (None, "", " ") for f in required_fields)
ProfileComplete(p) == \A f \in RequiredFields : p[f] \notin Blank

\* variant: the stock guard off by one
InsufficientStockOffByOne(stock_quantity, qty) == stock_quantity + 1 < qty

\* variant: no stock check at all
StockNotChecked(stock_quantity, qty) == FALSE

\* if variant["stock_quantity"] < qty
InsufficientStock(stock_quantity, qty) == stock_quantity < qty

\* the dict appended to validated_items; brand_id is there only if brandKeyed
ValidatedItem(line, stk, keyed) ==
    LET product_id == VariantTable[line.variant_id].product_id
        price == ProductTable[product_id].price
        base == [variant_id |-> line.variant_id, product_id |-> product_id,
                 quantity |-> line.quantity, price_per_unit |-> price,
                 subtotal |-> price * line.quantity,
                 new_stock |-> stk[line.variant_id] - line.quantity]
    IN  IF keyed THEN base @@ [brand_id |-> ProductTable[product_id].brand_id] ELSE base

\* one pass of the loop over order.items: the HTTP status it raises, or 0
ResolveStatus(line, stk) ==
    IF line.variant_id \notin DOMAIN VariantTable THEN 404
    ELSE IF InsufficientStock(stk[line.variant_id], line.quantity) THEN 400
    ELSE IF VariantTable[line.variant_id].product_id \notin DOMAIN ProductTable THEN 404
    ELSE IF ProductTable[VariantTable[line.variant_id].product_id].price = NoPrice THEN 400
    ELSE 0

\* int(total_amount // 1000), total_amount in paise
LuckyCount(amount) == amount \div 100000

ExistingNumbers == {row.lucky_number : row \in luckyRows}

\* the handler returns or raises: the response, and the locals dropped
Response(q, code, text, fault) ==
    [op |-> q.op, user |-> q.user, pm |-> q.pm, cart |-> q.cart, data |-> q.data,
     status |-> code,
     detail |-> text, at |-> q.pc, faulted |-> fault, oid |-> q.oid,
     deducted |-> IF q.pc \in {"deduct", "reread"} THEN q.k - 1 ELSE 0,
     opt |-> q.opt, pricing |-> NoPricing, items |-> <<>>,
     count |-> IF q.op = "draw" THEN q.n ELSE 0,
     lucky |-> IF q.op = "draw" THEN q.lucky ELSE <<>>]

\* request q, in slot r, returns
Return(r, q, code, text, fault) ==
    /\ last' = Response(q, code, text, fault)
    /\ req' = [req EXCEPT ![r] = Idle]

Finish(r, code, text) == Return(r, req[r], code, text, FALSE)

FinishFault(r, code, text) == Return(r, req[r], code, text, TRUE)

\* variant: the compensating delete left out
KeepOrderHeader(oid) == UNCHANGED <<orders, orderItems, luckyRows>>

\* supabase.table("orders").delete().eq("order_id", oid): the header goes, and
\* its child rows go with it only if the schema cascades
DeleteOrderHeader(oid) ==
    /\ orders' = Remove(orders, oid)
    /\ orderItems' = IF cascade THEN {it \in orderItems : it.order_id # oid} ELSE orderItems
    /\ luckyRows' = IF cascade THEN {ln \in luckyRows : ln.order_id # oid} ELSE luckyRows

\* the cart lines a client sends: quantity from the range the specification draws
Lines == [variant_id : VariantIds, quantity : limits.qtys]

\* a cart line as the loop met it: with the stock_quantity its variant had
Seen(line, stk) ==
    [variant_id |-> line.variant_id, quantity |-> line.quantity,
     seen |-> IF line.variant_id \in DOMAIN stk THEN stk[line.variant_id] ELSE 0]

\* a slot takes a new request when its last one has returned; the first free
\* slot is taken
Free(r, cost) ==
    /\ r <= limits.slots
    /\ req[r].pc = "idle"
    /\ \A r2 \in Slots : req[r2].pc = "idle" => r2 >= r
    /\ work + cost <= limits.work

\* POST /orders arrives (a cart of n lines, whose lines the model draws when
\* the loop reads them), and step 1: load the profile, insert an empty one if
\* absent, require its fields
CreateProfile(r) ==
    /\ Free(r, 2)
    /\ \E u \in Users, n \in 0..MaxCartLen, pm \in PaymentMethods :
          LET q == [Idle EXCEPT !.op = "create", !.pc = "profile", !.user = u,
                                !.n = n, !.pm = pm]
          IN  /\ profiles' = IF u \notin DOMAIN profiles
                             THEN profiles @@ (u :> EmptyProfile)
                             ELSE profiles
              /\ IF ProfileComplete(LoadedProfile(u))
                 THEN /\ req' = [req EXCEPT ![r] = [q EXCEPT !.pc = "resolve", !.k = 1]]
                      /\ last' = NoResponse
                 ELSE Return(r, q, 400, "Please complete your profile", FALSE)
    /\ work' = work + 2
    /\ UNCHANGED <<stock, orders, orderItems, luckyRows, nextOrderId, gwNext, createVars>>

\* step 2: one pass of the resolution loop (variant and product lookup)
CreateResolve(r) ==
    /\ req[r].op = "create" /\ req[r].pc = "resolve"
    /\ IF req[r].n = 0
       THEN Finish(r, 400, "No items in order")
       ELSE \E line \in Lines :
              LET code == ResolveStatus(line, stock)
                  q == [req[r] EXCEPT !.cart = Append(@, Seen(line, stock))]
              IN  IF code # 0
                  THEN Return(r, q, code, "resolution", FALSE)
                  ELSE /\ req' = [req EXCEPT ![r] = [q EXCEPT
                            !.validated = Append(@, ValidatedItem(line, stock, brandKeyed)),
                            !.total_amount = @ + ValidatedItem(line, stock, brandKeyed).subtotal,
                            !.k = @ + 1,
                            !.pc = IF q.k = q.n THEN "price" ELSE "resolve"]]
                       /\ last' = NoResponse
    /\ UNCHANGED <<storeVars, createVars, work>>

\* shared pricing; any exception of it becomes "Error validating items"
CreatePrice(r) ==
    /\ req[r].op = "create" /\ req[r].pc = "price"
    /\ LET pricing == calculate_order_pricing(req[r].pm, req[r].validated)
       IN  IF pricing.raised # ""
           THEN Finish(r, 500, "Error validating items")
           ELSE /\ req' = [req EXCEPT ![r].grand_total = pricing.total, ![r].pc = "draw"]
                /\ last' = NoResponse
    /\ UNCHANGED <<storeVars, createVars, work>>


\* step 3a: generate_unique_lucky_numbers reads the pool and draws the numbers
CreateDraw(r) ==
    /\ req[r].op = "create" /\ req[r].pc = "draw"
    /\ \E drawn \in Arrangements(LuckySpace \ ExistingNumbers, LuckyCount(req[r].total_amount)) :
          /\ req' = [req EXCEPT ![r].lucky = drawn, ![r].pc = "insert_order"]
          /\ last' = NoResponse
    /\ UNCHANGED <<storeVars, createVars, work>>

OrderRow(r, id, opt_out_delivery) ==
    [order_id |-> id, user_id |-> req[r].user, total_amount |-> req[r].grand_total,
     payment_method |-> req[r].pm, payment_status |-> "Pending",
     order_status |-> "Pending", lucky_number |-> req[r].lucky,
     opt_out_delivery |-> opt_out_delivery,
     razorpay_order_id |-> 0, razorpay_payment_id |-> ""]

\* step 3b: insert the order header (order.opt_out_delivery is drawn here,
\* where the handler first reads it)
CreateInsertOrder(r) ==
    /\ req[r].op = "create" /\ req[r].pc = "insert_order"
    /\ \E fault \in BOOLEAN :
          IF fault
          THEN /\ FinishFault(r, 500, "Error creating order in DB")
               /\ UNCHANGED <<orders, nextOrderId>>
          ELSE \E opt \in limits.opts :
               /\ orders' = orders @@ (nextOrderId :> OrderRow(r, nextOrderId, opt))
               /\ nextOrderId' = nextOrderId + 1
               /\ req' = [req EXCEPT ![r].oid = nextOrderId, ![r].k = 1,
                             ![r].opt = opt,
                             ![r].pc = IF req[r].lucky = <<>> THEN "insert_items"
                                       ELSE "insert_lucky"]
               /\ last' = NoResponse
    /\ UNCHANGED <<profiles, stock, orderItems, luckyRows, gwNext, createVars, work>>

\* step 3c: one pass of the loop inserting the lucky_numbers rows; a failure
\* leaves through the handler of 587-588, which deletes nothing
CreateInsertLucky(r) ==
    /\ req[r].op = "create" /\ req[r].pc = "insert_lucky"
    /\ \E fault \in BOOLEAN :
          IF fault
          THEN /\ FinishFault(r, 500, "Error creating order in DB")
               /\ UNCHANGED luckyRows
          ELSE /\ luckyRows' = luckyRows \cup
                      {[order_id |-> req[r].oid, lucky_number |-> req[r].lucky[req[r].k]]}
               /\ req' = [req EXCEPT ![r].k = @ + 1,
                             ![r].pc = IF req[r].k = Len(req[r].lucky) THEN "insert_items"
                                       ELSE "insert_lucky"]
               /\ last' = NoResponse
    /\ UNCHANGED <<profiles, stock, orders, orderItems, nextOrderId, gwNext,
                   createVars, work>>

ItemRows(r) ==
    {[order_id |-> req[r].oid, line |-> i,
      variant_id |-> req[r].validated[i].variant_id,
      quantity |-> req[r].validated[i].quantity,
      subtotal |-> req[r].validated[i].subtotal] : i \in 1..Len(req[r].validated)}

\* step 4: insert the order items in one call; on failure delete the header
CreateInsertItems(r) ==
    /\ req[r].op = "create" /\ req[r].pc = "insert_items"
    /\ \E fault \in BOOLEAN :
          IF fault
          THEN /\ DeleteOrderHeader(req[r].oid)
               /\ FinishFault(r, 500, "Error creating order items")
          ELSE /\ orderItems' = orderItems \cup ItemRows(r)
               /\ req' = [req EXCEPT ![r].k = 1,
                             ![r].pc = IF req[r].pm = "Online" THEN "rzp_create"
                                       ELSE "deduct"]
               /\ UNCHANGED <<orders, luckyRows>>
               /\ last' = NoResponse
    /\ UNCHANGED <<profiles, stock, nextOrderId, gwNext, createVars, work>>

\* step 5a: create the gateway order; on failure delete the header
CreateRzpOrder(r) ==
    /\ req[r].op = "create" /\ req[r].pc = "rzp_create"
    /\ \E fault \in BOOLEAN :
          IF fault
          THEN /\ DeleteOrderHeader(req[r].oid)
               /\ FinishFault(r, 500, "Razorpay creation failed")
               /\ UNCHANGED gwNext
          ELSE /\ gwNext' = gwNext + 1
               /\ req' = [req EXCEPT ![r].rzp = gwNext, ![r].pc = "rzp_store"]
               /\ UNCHANGED <<orders, orderItems, luckyRows>>
               /\ last' = NoResponse
    /\ UNCHANGED <<profiles, stock, nextOrderId, createVars, work>>

\* step 5b: store razorpay_order_id on the header; on failure delete the header
CreateRzpStore(r) ==
    /\ req[r].op = "create" /\ req[r].pc = "rzp_store"
    /\ \E fault \in BOOLEAN :
          IF fault
          THEN /\ DeleteOrderHeader(req[r].oid)
               /\ FinishFault(r, 500, "Razorpay creation failed")
          ELSE /\ orders' = [o \in DOMAIN orders |->
                                IF o = req[r].oid
                                THEN [orders[o] EXCEPT !.razorpay_order_id = req[r].rzp]
                                ELSE orders[o]]
               /\ req' = [req EXCEPT ![r].pc = "deduct"]
               /\ UNCHANGED <<orderItems, luckyRows>>
               /\ last' = NoResponse
    /\ UNCHANGED <<profiles, stock, nextOrderId, gwNext, createVars, work>>

\* variant: the stock decremented from its current value
StockDecremented(current, item) == current - item.quantity

\* update({"stock_quantity": item["new_stock"]}): the value computed at
\* validation is written, whatever the row holds now
StockWritten(current, item) == item.new_stock

\* step 6: one pass of the loop writing new_stock; no handler surrounds it
CreateDeduct(r) ==
    /\ req[r].op = "create" /\ req[r].pc = "deduct"
    /\ \E fault \in BOOLEAN :
          IF fault
          THEN /\ FinishFault(r, 500, "Internal Server Error")
               /\ UNCHANGED stock
          ELSE LET item == req[r].validated[req[r].k]
               IN  /\ stock' = [stock EXCEPT ![item.variant_id] = StockWritten(@, item)]
                   /\ req' = [req EXCEPT ![r].k = @ + 1,
                                 ![r].pc = IF req[r].k = Len(req[r].validated)
                                           THEN "reread" ELSE "deduct"]
                   /\ last' = NoResponse
    /\ UNCHANGED <<profiles, orders, orderItems, luckyRows, nextOrderId, gwNext,
                   createVars, work>>

\* step 7: read the order back and return it; no handler surrounds it
CreateReturn(r) ==
    /\ req[r].op = "create" /\ req[r].pc = "reread"
    /\ \E fault \in BOOLEAN :
          IF fault \/ req[r].oid \notin DOMAIN orders
          THEN FinishFault(r, 500, "Internal Server Error")
          ELSE Finish(r, 200, "")
    /\ UNCHANGED <<storeVars, createVars, work>>

\* ------------------------------------------------------------------ verify_payment
\* the HMAC the gateway puts on (razorpay_order_id, razorpay_payment_id)
Sign(gw_order_id, payment_id) == <<gw_order_id, payment_id>>

\* variant: a verification that accepts every signature
AcceptAnySignature(data) == TRUE

\* variant: a verification that rejects every signature
RejectAnySignature(data) == FALSE

\* razorpay_client.utility.verify_payment_signature(params_dict)
SignatureValid(data) ==
    data.razorpay_signature = Sign(data.razorpay_order_id, data.razorpay_payment_id)

\* the signature is the one the gateway made for this order id and payment id
Genuine(data) ==
    data.razorpay_signature = <<data.razorpay_order_id, data.razorpay_payment_id>>

\* select * from orders where order_id = .. and user_id = .. : the rows found
OwnOrder(order_id, user) ==
    order_id \in DOMAIN orders /\ orders[order_id].user_id = user

\* variant: the early return on a Completed order never taken
NeverCompleted(order) == FALSE

\* if order["payment_status"] == "Completed": return success
AlreadyCompleted(order) == order.payment_status = "Completed"

VerifyRequests ==
    UNION {{[order_id |-> o, razorpay_order_id |-> g, razorpay_payment_id |-> p,
             razorpay_signature |-> s] : s \in {Sign(g, p), Forged}} :
               o \in 1..MaxOrderId, g \in GatewayIds, p \in PaymentIds}

\* POST /payment/verify arrives, and steps 1 and 2: load the caller's order
\* (any exception of the block, the 404 raised inside it included, leaves as a
\* 500), return early if it is Completed, else verify the signature
VerifyLoad(r) ==
    /\ Free(r, 1)
    /\ \E u \in Users, d \in VerifyRequests :
          LET q == [Idle EXCEPT !.op = "verify", !.pc = "v_load", !.user = u, !.data = d]
              found == OwnOrder(d.order_id, u)
              checked == found /\ ~AlreadyCompleted(orders[d.order_id])
          IN  /\ IF ~found
                 THEN Return(r, q, 500, "Error fetching order", FALSE)
                 ELSE IF AlreadyCompleted(orders[d.order_id])
                 THEN Return(r, q, 200, "Payment already verified", FALSE)
                 ELSE IF ~SignatureValid(d)
                 THEN Return(r, q, 400, "Payment verification failed: Invalid signature",
                             FALSE)
                 ELSE /\ req' = [req EXCEPT ![r] = [q EXCEPT !.pc = "v_update"]]
                      /\ last' = NoResponse
              /\ passed' = IF checked /\ Genuine(d) THEN passed \cup {d} ELSE passed
    /\ work' = work + 1
    /\ UNCHANGED <<storeVars, schemaVars>>

\* variant: an update that sets payment_status alone
PaidOrder(order, data) ==
    [order EXCEPT !.payment_status = "Completed",
                  !.razorpay_payment_id = data.razorpay_payment_id]

\* update_data of step 3, applied to a row
VerifiedOrder(order, data) ==
    [order EXCEPT !.payment_status = "Completed",
                  !.order_status = "Confirmed",
                  !.razorpay_payment_id = data.razorpay_payment_id]

\* step 3: update orders set ... where order_id = ..
VerifyUpdate(r) ==
    /\ req[r].op = "verify" /\ req[r].pc = "v_update"
    /\ orders' = [o \in DOMAIN orders |->
                     IF o = req[r].data.order_id
                     THEN VerifiedOrder(orders[o], req[r].data)
                     ELSE orders[o]]
    /\ Finish(r, 200, "Payment verified and order confirmed")
    /\ UNCHANGED <<profiles, stock, orderItems, luckyRows, nextOrderId, gwNext,
                   schemaVars, work, passed>>

\* ------------------------------------------------------------------ update_order
UpdateRequests == [order_id : 1..MaxOrderId, opt_out_delivery : BOOLEAN]

\* PUT /orders/{order_id} arrives, and the first select: the caller's order,
\* or 404 (an HTTPException is raised again as it is)
UpdateLoad(r) ==
    /\ Free(r, 1)
    /\ \E u \in Users, d \in UpdateRequests :
          LET q == [Idle EXCEPT !.op = "update", !.pc = "u_load", !.user = u,
                                !.oid = d.order_id, !.opt = d.opt_out_delivery]
          IN  IF ~OwnOrder(d.order_id, u)
              THEN Return(r, q, 404, "Order not found", FALSE)
              ELSE /\ req' = [req EXCEPT ![r] = [q EXCEPT !.pc = "u_write"]]
                   /\ last' = NoResponse
    /\ work' = work + 1
    /\ UNCHANGED <<storeVars, createVars>>

\* variant: an update that also sets the order back to Pending
ReopenedOrder(order, opt_out_delivery) ==
    [order EXCEPT !.opt_out_delivery = opt_out_delivery,
                  !.payment_status = "Pending", !.order_status = "Pending"]

\* update_data = {"opt_out_delivery": ..}, applied to a row
UpdatedOrder(order, opt_out_delivery) ==
    [order EXCEPT !.opt_out_delivery = opt_out_delivery]

\* update orders set opt_out_delivery = .. where order_id = ..; no row
\* updated is 500 "Update failed"
UpdateWrite(r) ==
    /\ req[r].op = "update" /\ req[r].pc = "u_write"
    /\ IF req[r].oid \notin DOMAIN orders
       THEN /\ Finish(r, 500, "Update failed")
            /\ UNCHANGED orders
       ELSE /\ orders' = [orders EXCEPT
                              ![req[r].oid] = UpdatedOrder(orders[req[r].oid], req[r].opt)]
            /\ req' = [req EXCEPT ![r].pc = "u_fetch"]
            /\ last' = NoResponse
    /\ UNCHANGED <<profiles, stock, orderItems, luckyRows, nextOrderId, gwNext,
                   createVars, work>>

\* the final select of the order with its items
UpdateFetch(r) ==
    /\ req[r].op = "update" /\ req[r].pc = "u_fetch"
    /\ IF req[r].oid \notin DOMAIN orders
       THEN Finish(r, 404, "Order not found after update")
       ELSE Finish(r, 200, "")
    /\ UNCHANGED <<storeVars, createVars, work>>

\* ------------------------------------------------------------------ price_preview
\* the dict price_preview appends to validated_items: price_per_unit is
\* float(product["price"]); brand_id is there only if brandKeyed
PreviewItem(line, keyed) ==
    LET product_id == VariantTable[line.variant_id].product_id
        price == ProductTable[product_id].price
        base == [variant_id |-> line.variant_id, product_id |-> product_id,
                 quantity |-> line.quantity, price_per_unit |-> price,
                 subtotal |-> price * line.quantity]
    IN  IF keyed THEN base @@ [brand_id |-> ProductTable[product_id].brand_id] ELSE base

\* a lookup of the loop raises: .single() on no row, or float(None)
PreviewRaises(line) ==
    \/ line.variant_id \notin DOMAIN VariantTable
    \/ VariantTable[line.variant_id].product_id \notin DOMAIN ProductTable
    \/ ProductTable[VariantTable[line.variant_id].product_id].price = NoPrice

Carts == UNION {[1..n -> Lines] : n \in 0..MaxCartLen}

\* POST /orders/price-preview: the handler reads the catalogue and the offers
\* and writes nothing; it has no exception handler, so whatever is raised in
\* it leaves as 500
PricePreview(r) ==
    /\ Free(r, 1)
    /\ \E pm \in PaymentMethods, cart \in Carts :
          LET q == [Idle EXCEPT !.op = "preview", !.pc = "preview", !.pm = pm,
                                !.cart = [i \in 1..Len(cart) |-> Seen(cart[i], stock)]]
              raises == \E i \in 1..Len(cart) : PreviewRaises(cart[i])
              items == [i \in 1..Len(cart) |-> PreviewItem(cart[i], brandKeyed)]
              pricing == calculate_order_pricing(pm, items)
          IN  /\ req' = req
              /\ last' = IF raises \/ pricing.raised # ""
                         THEN Response(q, 500, "Internal Server Error", FALSE)
                         ELSE [Response(q, 200, "", FALSE) EXCEPT !.pricing = pricing]
    /\ work' = work + 1
    /\ UNCHANGED <<storeVars, createVars>>

\* ------------------------------------------------------------------ pricing inputs
\* payment_method: 'COD', 'Online', 'Wallet'
PricingMethods == PaymentMethods \cup {"Wallet"}

\* the cart lines of which the item has a brand and a price
PricedLines ==
    {l \in Lines : /\ l.variant_id \in DOMAIN VariantTable
                   /\ VariantTable[l.variant_id].product_id \in DOMAIN ProductTable
                   /\ ProductTable[VariantTable[l.variant_id].product_id].price # NoPrice}

\* validated_items as calculate_order_pricing reads them: each with brand_id
PricingItems(cart) == [i \in 1..Len(cart) |-> PreviewItem(cart[i], TRUE)]

\* calculate_order_pricing applied to a payment method and a list of items
\* items of a brand b3 with subtotal 400.00 and quantity 3
ThreeOfBrand ==
    << [variant_id |-> 0, product_id |-> 0, quantity |-> 1, price_per_unit |-> 10000,
        subtotal |-> 10000, brand_id |-> "b3"],
       [variant_id |-> 0, product_id |-> 0, quantity |-> 2, price_per_unit |-> 15000,
        subtotal |-> 30000, brand_id |-> "b3"] >>

\* the lists of items the pricing function is applied to
PricingInputs ==
    {PricingItems(cart) : cart \in UNION {[1..n -> PricedLines] : n \in 0..MaxCartLen}}
        \cup {ThreeOfBrand}

ApplyPricing ==
    /\ \E pm \in PricingMethods, items \in PricingInputs :
          last' = [NoResponse EXCEPT
                      !.op = "pricing", !.pm = pm, !.status = 200,
                      !.items = items,
                      !.pricing = calculate_order_pricing(pm, items)]
    /\ UNCHANGED <<storeVars, createVars, req, work>>

\* offers tables: fixed offers below and above the subtotal of a line at
\* 480.00, and two offers for one brand
FixedSmall ==
    [scope_id |-> "b2", discount_type |-> "fixed", discount_value |-> 476,
     min_quantity |-> 1, is_active |-> TRUE]
FixedLarge ==
    [scope_id |-> "b2", discount_type |-> "fixed", discount_value |-> 60000,
     min_quantity |-> 1, is_active |-> TRUE]
\* a flat 20.00 for the brand that also has the 10% offer
FlatB1 ==
    [scope_id |-> "b1", discount_type |-> "fixed", discount_value |-> 2000,
     min_quantity |-> 1, is_active |-> TRUE]
\* an offer of 50% that is not active
Inactive ==
    [scope_id |-> "b1", discount_type |-> "percentage", discount_value |-> 5000,
     min_quantity |-> 1, is_active |-> FALSE]
\* 30% from quantity 3 for brand b3
ThirtyPercent ==
    [scope_id |-> "b3", discount_type |-> "percentage", discount_value |-> 3000,
     min_quantity |-> 3, is_active |-> TRUE]
OfferTables ==
    {<<>>, <<TenPercent>>, <<FixedSmall>>, <<FixedLarge>>, <<TenPercent, FixedSmall>>,
     <<FixedSmall, FixedLarge>>, <<TenPercent, FlatB1>>, <<Inactive, TenPercent>>,
     <<ThirtyPercent>>}

\* ------------------------------------------------------------------ specifications
FullProfile == [f \in RequiredFields |-> "x"]

\* the profiles a user may have that lack something: no row, or a row with
\* one required field None, "" or " "
PartialProfiles ==
    {[FullProfile EXCEPT ![f] = b] : f \in RequiredFields, b \in Blank}

\* u1 has a complete profile, u2 has no row
InitProfiles == profiles = ("u1" :> FullProfile)

InitTables ==
    /\ stock = [v \in DOMAIN VariantTable |-> InitStock]
    /\ orders = <<>>
    /\ orderItems = {}
    /\ luckyRows = {}
    /\ nextOrderId = 1
    /\ gwNext = 1
    /\ cascade \in BOOLEAN
    /\ req = [r \in Slots |-> Idle]
    /\ last = NoResponse
    /\ work = 0
    /\ passed = {}

InitStore == InitProfiles /\ InitTables /\ offers = OfferTable

\* slots that take requests, the bound on work, and the values clients give
\* to opt_out_delivery in POST /orders (FALSE is the schema's default)
Sequential ==
    [slots |-> 1, work |-> MaxWork, opts |-> {FALSE}, qtys |-> 1..MaxQty]
Concurrent ==
    [slots |-> 2, work |-> MaxWorkConc, opts |-> {FALSE}, qtys |-> 1..MaxQty]
WithUpdates ==
    [slots |-> 1, work |-> MaxWorkOrders, opts |-> BOOLEAN, qtys |-> 1..MaxQty]
Previews ==
    [slots |-> 1, work |-> MaxWorkPricing, opts |-> {FALSE}, qtys |-> 1..MaxQty]
Draws ==
    [slots |-> 1, work |-> MaxWorkDraw, opts |-> {FALSE}, qtys |-> 1..MaxQty]
\* quantity is an unconstrained int in OrderItemCreate: zero and negative too
AnyQuantity ==
    [slots |-> 1, work |-> MaxWorkQty, opts |-> {FALSE}, qtys |-> (0 - 1)..MaxQty]

\* the code as written: validated_items carry no brand_id
Init ==
    /\ \/ InitProfiles
       \/ \E p \in PartialProfiles : profiles = ("u1" :> FullProfile) @@ ("u2" :> p)
    /\ InitTables /\ offers = OfferTable
    /\ brandKeyed = FALSE /\ limits = Concurrent

\* the resolved line item of the specification, which carries brand_id;
\* requests one after another
InitResolved == InitStore /\ brandKeyed = TRUE /\ limits = Sequential

\* the same, two requests in flight
InitConcurrent == InitStore /\ brandKeyed = TRUE /\ limits = Concurrent

Next ==
    \E r \in Slots :
        \/ CreateProfile(r)
        \/ CreateResolve(r)
        \/ CreatePrice(r)
        \/ VerifyLoad(r)

NextResolved ==
    \E r \in Slots :
        \/ CreateProfile(r)
        \/ CreateResolve(r)
        \/ CreatePrice(r)
        \/ CreateDraw(r)
        \/ CreateInsertOrder(r)
        \/ CreateInsertLucky(r)
        \/ CreateInsertItems(r)
        \/ CreateRzpOrder(r)
        \/ CreateRzpStore(r)
        \/ CreateDeduct(r)
        \/ CreateReturn(r)
        \/ VerifyLoad(r)
        \/ VerifyUpdate(r)

Spec == Init /\ [][Next]_vars

SpecResolved == InitResolved /\ [][NextResolved]_vars

SpecConcurrent == InitConcurrent /\ [][NextResolved]_vars

\* create_order, verify_payment and update_order, one request after another
NextOrders ==
    \/ NextResolved
    \/ \E r \in Slots :
          \/ UpdateLoad(r)
          \/ UpdateWrite(r)
          \/ UpdateFetch(r)

InitOrders == InitStore /\ brandKeyed = TRUE /\ limits = WithUpdates

SpecOrders == InitOrders /\ [][NextOrders]_vars

\* the pricing function on drawn items and offers, and the preview endpoint,
\* with and without brand_id on the items it builds
InitPricing ==
    /\ InitProfiles /\ InitTables
    /\ offers \in OfferTables
    /\ brandKeyed \in BOOLEAN
    /\ limits = Previews

NextPricing ==
    \/ ApplyPricing
    \/ \E r \in Slots : PricePreview(r)

SpecPricing == InitPricing /\ [][NextPricing]_vars

\* create_order alone, for carts of any integer quantities
InitQuantities == InitStore /\ brandKeyed = TRUE /\ limits = AnyQuantity

NextQuantities ==
    \E r \in Slots :
        \/ CreateProfile(r)
        \/ CreateResolve(r)
        \/ CreatePrice(r)
        \/ CreateDraw(r)
        \/ CreateInsertOrder(r)
        \/ CreateInsertLucky(r)
        \/ CreateInsertItems(r)
        \/ CreateRzpOrder(r)
        \/ CreateRzpStore(r)
        \/ CreateDeduct(r)
        \/ CreateReturn(r)

SpecQuantities == InitQuantities /\ [][NextQuantities]_vars

\* ------------------------------------------------------------------ generate_unique_lucky_numbers
\* the function step by step: the one read of the lucky_numbers table, then
\* the while loop, one random number per pass

\* the call, and the select of the existing numbers
DrawCall(r) ==
    /\ Free(r, 1)
    /\ \E count \in (0 - 1)..MaxCount :
          req' = [req EXCEPT ![r] = [Idle EXCEPT !.op = "draw", !.pc = "loop",
                                                !.n = count, !.lucky = <<>>,
                                                !.existing = ExistingNumbers]]
    /\ last' = NoResponse
    /\ work' = work + 1
    /\ UNCHANGED <<storeVars, createVars>>

\* one pass of `while len(lucky_numbers) < count`: a random number, kept if
\* it is not in existing_set
DrawLoop(r) ==
    /\ req[r].op = "draw" /\ req[r].pc = "loop"
    /\ Len(req[r].lucky) < req[r].n
    /\ \E ln \in LuckySpace :
          req' = IF ln \notin req[r].existing
                 THEN [req EXCEPT ![r].lucky = Append(@, ln),
                                  ![r].existing = @ \cup {ln}]
                 ELSE req
    /\ last' = NoResponse
    /\ UNCHANGED <<storeVars, createVars, work>>

\* the loop condition is false: return lucky_numbers
DrawReturn(r) ==
    /\ req[r].op = "draw" /\ req[r].pc = "loop"
    /\ ~(Len(req[r].lucky) < req[r].n)
    /\ Finish(r, 200, "")
    /\ UNCHANGED <<storeVars, createVars, work>>

\* the rows of the lucky_numbers table at the call: any numbers of the space
\* (the function reads the lucky_number column only)
Pools ==
    {{[order_id |-> 0, lucky_number |-> ln] : ln \in taken} : taken \in SUBSET LuckySpace}

InitDraw ==
    /\ InitProfiles
    /\ stock = [v \in DOMAIN VariantTable |-> InitStock]
    /\ orders = <<>>
    /\ orderItems = {}
    /\ luckyRows \in Pools
    /\ nextOrderId = 1
    /\ gwNext = 1
    /\ cascade = FALSE
    /\ req = [r \in Slots |-> Idle]
    /\ last = NoResponse
    /\ work = 0
    /\ passed = {}
    /\ offers = OfferTable
    /\ brandKeyed = FALSE
    /\ limits = Draws

NextDraw ==
    \/ \E r \in Slots : DrawCall(r)
    \/ \E r \in Slots : DrawLoop(r)
    \/ \E r \in Slots : DrawReturn(r)

\* random.randint is uniform over the space: a pass that can draw a number
\* not in existing_set eventually does (weak fairness of the passes that
\* change the list), and a false loop condition is followed by the return
DrawFairness ==
    /\ \A r \in Slots : WF_vars(DrawLoop(r))
    /\ \A r \in Slots : WF_vars(DrawReturn(r))

SpecDraw == InitDraw /\ [][NextDraw]_vars /\ DrawFairness

\* ------------------------------------------------------------------ claims
\* A request has returned in the step just taken exactly when last.op is not
\* "none"; the store is then as that request left it.
Returned(op) == last.op = op

ItemsOf(oid) == {it \in orderItems : it.order_id = oid}
LuckyOf(oid) == {ln \in luckyRows : ln.order_id = oid}

\* a cart line that does not resolve: unknown variant, more than the stock
\* read for it, no product row, or no price
BadLine(l) ==
    \/ l.variant_id \notin DOMAIN VariantTable
    \/ l.quantity > l.seen
    \/ VariantTable[l.variant_id].product_id \notin DOMAIN ProductTable
    \/ ProductTable[VariantTable[l.variant_id].product_id].price = NoPrice

\* the whole cart was read and every line of it resolved
CartResolved ==
    /\ last.cart # <<>>
    /\ last.at \notin {"profile", "resolve"}
    /\ \A i \in 1..Len(last.cart) : ~BadLine(last.cart[i])

\* C1: a create_order by a user with a complete profile, for a non-empty cart
\* whose every line resolves, with no store or gateway failure, succeeds: the
\* pricing step does not abort, and the order is persisted Pending/Pending
\* with its items.
C1_CreateSucceeds ==
    (Returned("create") /\ ProfileComplete(profiles[last.user]) /\ CartResolved
       /\ ~last.faulted)
    => /\ last.status = 200
       /\ last.oid \in DOMAIN orders
       /\ orders[last.oid].payment_status = "Pending"
       /\ orders[last.oid].order_status = "Pending"
       /\ Cardinality(ItemsOf(last.oid)) = Len(last.cart)

C5_BadLineWritesNothing ==
    (Returned("create") /\ \E i \in 1..Len(last.cart) : BadLine(last.cart[i]))
    => /\ last.status \in {400, 404}
       /\ last.at = "resolve"
       /\ last.oid = 0
       /\ last.deducted = 0

C5_Witness ==
    /\ Returned("create") /\ Len(last.cart) = 2
    /\ ~BadLine(last.cart[1]) /\ BadLine(last.cart[2])
    /\ last.status = 400 /\ last.oid = 0

\* ---- verify_payment
Completed(o) == orders[o].payment_status = "Completed"

\* the verify_payment requests for order o that reached the signature check
\* with the signature the gateway made
PassedFor(o) == {d \in passed : d.order_id = o}

InvalidSignature ==
    last.status = 400 /\ last.detail = "Payment verification failed: Invalid signature"

\* C6: an order is Completed only if an earlier verify_payment call for it
\* passed the signature verification; and a verify_payment call on an order
\* that is not yet Completed, with a signature that does not verify, fails
\* with InvalidSignature and leaves the order as it was created.
C6_CompletedOnlyAfterSignature ==
    /\ \A o \in DOMAIN orders : Completed(o) => PassedFor(o) # {}
    /\ (Returned("verify") /\ OwnOrder(last.data.order_id, last.user)
          /\ ~Completed(last.data.order_id) /\ ~Genuine(last.data))
       => /\ InvalidSignature
          /\ orders[last.data.order_id].order_status = "Pending"
          /\ orders[last.data.order_id].razorpay_payment_id = ""

C6_Witness ==
    /\ Returned("verify") /\ OwnOrder(last.data.order_id, last.user)
    /\ ~Genuine(last.data) /\ InvalidSignature
    /\ orders[last.data.order_id].payment_status = "Pending"
    /\ orders[last.data.order_id].razorpay_payment_id = ""

\* C7: an order is moved to Completed/Confirmed only by a verification whose
\* gateway order id is the one stored on the order; a valid triple made for
\* another gateway order does not confirm it.
C7_ConfirmedByOwnGatewayOrder ==
    \A o \in DOMAIN orders :
        Completed(o) =>
            \E d \in PassedFor(o) : d.razorpay_order_id = orders[o].razorpay_order_id

\* C8: verify_payment on an order that is already Completed returns success
\* whatever the signature, and payment_status, order_status and the recorded
\* gateway payment id of a Completed order never change again.
C8_CompletedIsFinal ==
    [][ /\ \A o \in DOMAIN orders :
              Completed(o) =>
                  /\ o \in DOMAIN orders'
                  /\ orders'[o].payment_status = orders[o].payment_status
                  /\ orders'[o].order_status = orders[o].order_status
                  /\ orders'[o].razorpay_payment_id = orders[o].razorpay_payment_id
        /\ (last'.op = "verify" /\ OwnOrder(last'.data.order_id, last'.user)
              /\ Completed(last'.data.order_id))
           => (last'.status = 200 /\ last'.at = "v_load") ]_vars

C8_Witness ==
    /\ Returned("verify") /\ last.status = 200 /\ last.at = "v_load"
    /\ last.data.razorpay_signature = Forged
    /\ OwnOrder(last.data.order_id, last.user)
    /\ Completed(last.data.order_id)
    /\ orders[last.data.order_id].razorpay_payment_id # last.data.razorpay_payment_id

\* C9: when the verify_payment calls for an order all carry the same valid
\* signature, in whatever interleaving, each of them returns success and the
\* order is then Completed/Confirmed with that payment id recorded.
C9_ConcurrentVerifySucceeds ==
    (Returned("verify") /\ OwnOrder(last.data.order_id, last.user)
       /\ Genuine(last.data)
       /\ \A d \in PassedFor(last.data.order_id) : d = last.data)
    => /\ last.status = 200
       /\ Completed(last.data.order_id)
       /\ orders[last.data.order_id].order_status = "Confirmed"
       /\ orders[last.data.order_id].razorpay_payment_id = last.data.razorpay_payment_id

\* one call returns from its update while another call with the same
\* arguments has passed the check and still has its update to do
C9_Witness ==
    /\ Returned("verify") /\ last.at = "v_update" /\ last.status = 200
    /\ OwnOrder(last.data.order_id, last.user)
    /\ \A d \in PassedFor(last.data.order_id) : d = last.data
    /\ \E r \in Slots : /\ req[r].op = "verify" /\ req[r].pc = "v_update"
                        /\ req[r].data = last.data /\ req[r].user = last.user

\* C10: verify_payment for an order id that does not exist, or that another
\* user owns, fails with OrderNotFound (a client error).
C10_UnknownOrderNotFound ==
    (Returned("verify") /\ last.at = "v_load"
       /\ ~OwnOrder(last.data.order_id, last.user))
    => last.status = 404

\* ---- order states
StatusPair(order) == <<order.payment_status, order.order_status>>

\* C11: every persisted order is Pending/Pending or Completed/Confirmed, and
\* an order that is Completed/Confirmed is never Pending again, whatever
\* create_order, update_order or verify_payment step follows.
C11_OrderStates ==
    [][ /\ \A o \in DOMAIN orders' :
              StatusPair(orders'[o]) \in {<<"Pending", "Pending">>,
                                          <<"Completed", "Confirmed">>}
        /\ \A o \in DOMAIN orders \cap DOMAIN orders' :
              StatusPair(orders[o]) = <<"Completed", "Confirmed">>
              => StatusPair(orders'[o]) = <<"Completed", "Confirmed">> ]_vars

\* an update_order of a confirmed order has just returned
C11_Witness ==
    /\ Returned("update") /\ last.status = 200
    /\ last.oid \in DOMAIN orders
    /\ StatusPair(orders[last.oid]) = <<"Completed", "Confirmed">>

\* ---- profile
\* a required field of the row is None, "" or " "
ProfileLacks(p) ==
    \/ p.full_name \in {None, "", " "} \/ p.address_line1 \in {None, "", " "}
    \/ p.city \in {None, "", " "} \/ p.postal_code \in {None, "", " "}

NumbersOf(o) == {orders[o].lucky_number[i] : i \in 1..Len(orders[o].lucky_number)}

\* no number on two persisted orders, and none twice on one order
LuckyNumbersUnique ==
    /\ \A o1, o2 \in DOMAIN orders : o1 # o2 => NumbersOf(o1) \cap NumbersOf(o2) = {}
    /\ \A o \in DOMAIN orders :
          Cardinality(NumbersOf(o)) = Len(orders[o].lucky_number)
    /\ \A x, y \in luckyRows :
          (x.lucky_number = y.lucky_number /\ x.order_id \in DOMAIN orders
             /\ y.order_id \in DOMAIN orders) => x.order_id = y.order_id

Priced == last.op = "pricing" /\ last.pricing.raised = ""

\* discounted_subtotal + gst_amount of the result returned
PreShipping == last.pricing.subtotal - last.pricing.discount + last.pricing.gst

\* the cart of the response, as the lines the client sent
SentCart == [i \in 1..Len(last.cart) |->
                [variant_id |-> last.cart[i].variant_id, quantity |-> last.cart[i].quantity]]

\* the items create_order builds for the cart, and the pricing it computes
CreateItems == [i \in 1..Len(SentCart) |-> ValidatedItem(SentCart[i], stock, brandKeyed)]
CreatePricing == calculate_order_pricing(last.pm, CreateItems)

\* C16: for a cart that create_order resolves, the preview endpoint returns
\* the PricingResult that create_order computes for the same cart, payment
\* method, prices and offers, from the same unit price and subtotal per line.
C16_PreviewMatchesCreate ==
    (Returned("preview") /\ last.cart # <<>>
       /\ \A i \in 1..Len(last.cart) : ~BadLine(last.cart[i]))
    => /\ last.status = 200
       /\ CreatePricing.raised = ""
       /\ last.pricing = CreatePricing
       /\ \A i \in 1..Len(SentCart) :
             /\ PreviewItem(SentCart[i], brandKeyed).price_per_unit
                  = CreateItems[i].price_per_unit
             /\ PreviewItem(SentCart[i], brandKeyed).subtotal = CreateItems[i].subtotal

\* C17: every brand aggregate of a pricing result has
\* 0 <= discount <= subtotal of that brand.
C17_DiscountWithinSubtotal ==
    Priced => \A b \in DOMAIN last.pricing.brand_breakdown :
                 /\ 0 <= last.pricing.brand_breakdown[b].discount
                 /\ last.pricing.brand_breakdown[b].discount
                      <= last.pricing.brand_breakdown[b].subtotal

\* C18: for COD the result has cod_fee = max(40.00, 2% of the total before
\* the fee, rounded), so at least 40.00, added to the total; for any other
\* payment method cod_fee is 0 and the total is the total before the fee.
C18_CodFee ==
    Priced =>
        LET grand == PreShipping + last.pricing.shipping_fee
            two_percent == RoundDiv(grand * 2, 100)
        IN  IF last.pm = "COD"
            THEN /\ last.pricing.cod_fee = (IF two_percent > 4000 THEN two_percent ELSE 4000)
                 /\ last.pricing.cod_fee >= 4000
                 /\ last.pricing.total = grand + last.pricing.cod_fee
            ELSE /\ last.pricing.cod_fee = 0
                 /\ last.pricing.total = grand

\* COD, with 2% of the total below 40.00
C18_Witness ==
    /\ Priced /\ last.pm = "COD" /\ last.pricing.cod_fee = 4000
    /\ 2 * (PreShipping + last.pricing.shipping_fee) < 400000
    /\ last.pricing.total = PreShipping + last.pricing.shipping_fee + 4000

\* C19: shipping_fee is 49.00 exactly when discounted subtotal + gst is below
\* 499.00, and 0 otherwise.
C19_ShippingThreshold ==
    Priced => /\ last.pricing.shipping_fee \in {0, 4900}
              /\ last.pricing.shipping_fee = 4900 <=> PreShipping < 49900

\* a total before shipping of exactly 499.00 ships free
C19_Witness ==
    Priced /\ PreShipping = 49900 /\ last.pricing.shipping_fee = 0

\* ---- update_order
\* a step of an update_order request: it arrives, or one is in flight
UpdateStep == \E r \in Slots : req[r].op = "update" \/ req'[r].op = "update"
                                  \/ last'.op = "update"

\* C20: an update_order by the owner changes the opt_out_delivery flag of
\* that order and nothing else: not its total_amount, payment_status,
\* order_status or lucky numbers, no other order, no item; an update_order by
\* a user who does not own the order fails with 404 and changes nothing.
C20_UpdateChangesFlagOnly ==
    [][ UpdateStep =>
          /\ UNCHANGED <<orderItems, luckyRows, stock>>
          /\ DOMAIN orders' = DOMAIN orders
          /\ \A o \in DOMAIN orders :
                /\ [orders'[o] EXCEPT !.opt_out_delivery = orders[o].opt_out_delivery]
                     = orders[o]
                /\ orders'[o] # orders[o]
                   => \E r \in Slots : /\ req[r].op = "update" /\ req[r].oid = o
                                       /\ req[r].user = orders[o].user_id
                                       /\ orders'[o].opt_out_delivery = req[r].opt
          /\ (last'.op = "update" /\ ~OwnOrder(last'.oid, last'.user))
             => (last'.status = 404 /\ UNCHANGED orders)
          /\ (last'.op = "update" /\ OwnOrder(last'.oid, last'.user))
             => (last'.status = 200 /\ orders'[last'.oid].opt_out_delivery = last'.opt) ]_vars

\* the owner has set the flag of a confirmed order that has lucky numbers
C20_Witness ==
    /\ Returned("update") /\ last.status = 200 /\ last.opt
    /\ orders[last.oid].opt_out_delivery
    /\ orders[last.oid].payment_status = "Completed"
    /\ orders[last.oid].lucky_number # <<>>

\* another user's update of an existing order has been refused
C20_WitnessRefused ==
    /\ Returned("update") /\ last.status = 404
    /\ last.oid \in DOMAIN orders /\ orders[last.oid].user_id # last.user

\* ---- pricing arithmetic
\* C21: for every priced cart, subtotal is the sum of the line subtotals,
\* discount the sum of the per-brand discounts, gst = round(5% of
\* (subtotal - discount)), and total = (subtotal - discount) + gst +
\* shipping_fee + cod_fee.
C21_PricingArithmetic ==
    Priced =>
        LET p == last.pricing
            brands == DOMAIN p.brand_breakdown
        IN  /\ p.subtotal = SumSeq([i \in 1..Len(last.items) |-> last.items[i].subtotal])
            /\ p.discount = SumSet([b \in brands |-> p.brand_breakdown[b].discount], brands)
            /\ p.gst = RoundDiv(5 * (p.subtotal - p.discount), 100)
            /\ p.total = (p.subtotal - p.discount) + p.gst + p.shipping_fee + p.cod_fee

\* brand subtotal 400.00 with a 30% offer: discount 120.00, gst 14.00,
\* shipping 49.00, total 343.00
C21_Witness ==
    /\ Priced /\ last.pm = "Online"
    /\ last.pricing.subtotal = 40000 /\ last.pricing.discount = 12000
    /\ last.pricing.gst = 1400 /\ last.pricing.shipping_fee = 4900
    /\ last.pricing.total = 34300

\* subtotal 1000.00, no offers, Online: gst 50.00, shipping 0, total 1050.00
C21_WitnessNoOffer ==
    /\ Priced /\ last.pm = "Online" /\ offers = <<>>
    /\ last.pricing.subtotal = 100000 /\ last.pricing.discount = 0
    /\ last.pricing.gst = 5000 /\ last.pricing.shipping_fee = 0
    /\ last.pricing.total = 105000

\* the offers of the table that are eligible for brand b at quantity q
Eligible(b, q) ==
    {offers[i] : i \in {j \in 1..Len(offers) :
                          /\ offers[j].scope_id = b /\ offers[j].is_active
                          /\ offers[j].min_quantity <= q}}

C23_DiscountByType ==
    Priced =>
        \A b \in DOMAIN last.pricing.brand_breakdown :
            LET agg == last.pricing.brand_breakdown[b]
            IN  /\ agg.offer.discount_type = "percentage"
                   => agg.discount = RoundDiv(agg.subtotal * agg.offer.discount_value, 10000)
                /\ agg.offer.discount_type = "fixed"
                   => agg.discount = agg.offer.discount_value

\* the flat 4.76 on a brand of quantity 2 and subtotal 960.00
C23_Witness ==
    /\ Priced /\ "b2" \in DOMAIN last.pricing.brand_breakdown
    /\ last.pricing.brand_breakdown["b2"].offer.discount_type = "fixed"
    /\ last.pricing.brand_breakdown["b2"].quantity = 2
    /\ last.pricing.brand_breakdown["b2"].subtotal = 96000
    /\ last.pricing.brand_breakdown["b2"].discount = 476

\* ---- stock
\* the quantity the returned request's cart asks of variant v, all lines added
CartQuantity(v) ==
    SumSeq([i \in 1..Len(last.cart) |->
              IF last.cart[i].variant_id = v THEN last.cart[i].quantity ELSE 0])

\* the cart of the returned request names every variant at most once
DistinctVariants ==
    \A i, j \in 1..Len(last.cart) :
        last.cart[i].variant_id = last.cart[j].variant_id => i = j

C24_DistinctVariantCarts ==
    (limits.slots = 1 /\ Returned("create") /\ last.status = 200 /\ DistinctVariants) =>
        \A i \in 1..Len(last.cart) :
            stock[last.cart[i].variant_id]
              = last.cart[i].seen - CartQuantity(last.cart[i].variant_id)

\* request r takes one pass of the deduction loop
Deducts(r) ==
    /\ req[r].op = "create" /\ req[r].pc = "deduct"
    /\ req'[r].pc \in {"deduct", "reread"} /\ req'[r].k = req[r].k + 1

InDraw == \E r \in Slots : req[r].op = "draw"

\* the list returned: max(count, 0) numbers, pairwise distinct, none in the
\* pool the call read
DrawResult ==
    /\ Len(last.lucky) = Max(last.count, 0)
    /\ \A i, j \in 1..Len(last.lucky) : last.lucky[i] = last.lucky[j] => i = j
    /\ \A i \in 1..Len(last.lucky) :
          last.lucky[i] \in LuckySpace \ {row.lucky_number : row \in luckyRows}

\* C26: generate_unique_lucky_numbers(count) terminates for every count and
\* every pool, and returns exactly max(count, 0) pairwise distinct numbers of
\* the space, none of them in the pool it read.
C26_DrawTerminates == InDraw ~> (Returned("draw") /\ DrawResult)

\* what it returns when it returns
C26_DrawResultWhenReturned == Returned("draw") => DrawResult

\* a call that asked for as many numbers as the pool leaves free has returned
C26_WitnessReturned ==
    /\ Returned("draw") /\ last.count = 2
    /\ Cardinality(luckyRows) = NumLucky - 2

\* a call in its loop with fewer free numbers left than it still needs
C26_WitnessExhausted ==
    \E r \in Slots :
        /\ req[r].op = "draw"
        /\ req[r].existing = LuckySpace
        /\ Len(req[r].lucky) < req[r].n

\* C27: in every reachable state, under any interleaving of concurrent
\* create_order calls on carts of positive quantities, no variant has a
\* negative stock_quantity.
C27_StockNeverNegative ==
    limits.qtys \subseteq 1..MaxQty => \A v \in DOMAIN stock : stock[v] >= 0

\* two calls that validated one variant against the same stock have both
\* written their deduction
C27_Witness ==
    /\ req[1].op = "create" /\ req[2].op = "create"
    /\ req[1].pc = "reread" /\ req[2].pc = "reread"
    /\ req[1].cart[1].variant_id = req[2].cart[1].variant_id
    /\ req[1].cart[1].seen = InitStock /\ req[2].cart[1].seen = InitStock
    /\ stock[req[1].cart[1].variant_id] = 0

C28_PositiveQuantities ==
    [][(limits.qtys \subseteq 1..MaxQty /\ limits.slots = 1) =>
          /\ \A v \in DOMAIN stock : stock'[v] <= stock[v]
          /\ \A it \in orderItems' : it.quantity >= 1]_vars

\* a COD order of quantity -1 has returned 200: its line is persisted and the
\* variant's stock is above the stock it started with
C28_NegativeQuantityAccepted ==
    /\ Returned("create") /\ last.status = 200 /\ last.pm = "COD"
    /\ last.cart = <<[variant_id |-> 1, quantity |-> 0 - 1, seen |-> InitStock]>>
    /\ \E it \in ItemsOf(last.oid) : it.quantity = 0 - 1
    /\ stock[1] = InitStock + 1

\* ---- headers and their lucky_numbers rows
\* the lucky_number field of header o names exactly the rows linked to o
LuckyLinked(o) == NumbersOf(o) = {row.lucky_number : row \in LuckyOf(o)}

C29_OrdersWithLines ==
    Returned("create") => \A o \in DOMAIN orders : ItemsOf(o) # {} => LuckyLinked(o)

====
